---- MODULE Spec2Model ----
(***************************************************************************)
(* Model of lib/vdsm/storage/guarded.py: the guarded.context context       *)
(* manager and the AbstractLock ordering/equality contract.                *)
(*                                                                         *)
(* A lock is the record of the attributes the guard reads: its concrete    *)
(* type, ns, name and mode.  acquire() and release() are calls on the      *)
(* external lock; each call either returns or raises an Exception, which   *)
(* the model chooses nondeterministically.                                 *)
(***************************************************************************)
EXTENDS Integers, Sequences, FiniteSets, TLC

\* ------------------------------------------------------------------------
\* Bounds and the universe of locks
\* ------------------------------------------------------------------------

\* number of threads that each use a guard of their own at the same time
NumThreads == 2

\* longest input collection of a concurrent guard
ConcMaxLocks == 2

\* how many with statements may use one guard object, one after the other
MaxEntries == 2

\* longest input collection handed to context(locks)
MaxLocks == 3

Types == {"A", "B"}
Namespaces == {1, 2}
Names == {1, 2}
Modes == {"exclusive", "shared"}

Lock == [type : Types, ns : Namespaces, name : Names, mode : Modes]

RECURSIVE SeqsUpTo(_, _)
SeqsUpTo(S, n) ==
    IF n = 0 THEN {<<>>}
    ELSE LET shorter == SeqsUpTo(S, n - 1)
         IN  shorter \cup {Append(s, e) : s \in {t \in shorter : Len(t) = n - 1}, e \in S}

Range(s) == {s[j] : j \in DOMAIN s}

\* ------------------------------------------------------------------------
\* AbstractLock
\* ------------------------------------------------------------------------

\* mutation: the mode is left out of the key
_key_NoMode(l) == <<l.type, l.ns, l.name>>

\* def _key(self): return type(self), self.ns, self.name, self.mode
_key(l) == <<l.type, l.ns, l.name, l.mode>>

\* def __eq__(self, other): return self._key() == other._key()
__eq__(a, b) == _key(a) = _key(b)

\* def __ne__(self, other): return not self == other
__ne__(a, b) == ~__eq__(a, b)

\* def __hash__(self): return hash(self._key())
__hash__(l) == _key(l)

\* Python's comparison of two tuples of integers: the first position where
\* they differ decides; a proper prefix is smaller.
RECURSIVE TupleLess(_, _)
TupleLess(s, t) ==
    IF s = <<>> THEN t # <<>>
    ELSE IF t = <<>> THEN FALSE
    ELSE IF Head(s) # Head(t) THEN Head(s) < Head(t)
    ELSE TupleLess(Tail(s), Tail(t))

\* mutation: the name is compared before the namespace
__lt___NameFirst(a, b) == TupleLess(<<a.name, a.ns>>, <<b.name, b.ns>>)

\* mutation: the comparison is turned around
__lt___Reversed(a, b) == TupleLess(<<b.ns, b.name>>, <<a.ns, a.name>>)

\* def __lt__(self, other): return (self.ns, self.name) < (other.ns, other.name)
__lt__(a, b) == TupleLess(<<a.ns, a.name>>, <<b.ns, b.name>>)

\* ------------------------------------------------------------------------
\* context.__init__: sorted(set(locks))
\* ------------------------------------------------------------------------

\* set.add: an element is already present when some member has the same hash
\* and compares equal.
SetContains(members, l) ==
    \E j \in DOMAIN members : __hash__(members[j]) = __hash__(l) /\ __eq__(members[j], l)

\* set(locks): the members kept, in insertion order (the first of equal
\* elements stays).
RECURSIVE SetMembers(_)
SetMembers(locks) ==
    IF locks = <<>> THEN <<>>
    ELSE LET front == SetMembers(SubSeq(locks, 1, Len(locks) - 1))
             l == locks[Len(locks)]
         IN  IF SetContains(front, l) THEN front ELSE Append(front, l)

\* Iterating a set yields its members in an order fixed by the hash table,
\* not by the program: every arrangement of the members is possible.
SetIterOrders(members) ==
    LET n == Len(members)
    IN  {[j \in 1..n |-> members[p[j]]] :
            p \in {q \in [1..n -> 1..n] : \A a, b \in 1..n : a # b => q[a] # q[b]}}

\* mutation: the element is put at the end, whatever its rank
InsertSorted_AtEnd(s, l) == Append(s, l)

\* Place l into an already sorted list after every element that is not
\* greater than it (a stable sort that uses only __lt__, as list.sort does).
RECURSIVE InsertSorted(_, _)
InsertSorted(s, l) ==
    IF s = <<>> THEN <<l>>
    ELSE IF __lt__(l, s[Len(s)]) THEN Append(InsertSorted(SubSeq(s, 1, Len(s) - 1), l), s[Len(s)])
    ELSE Append(s, l)

\* mutation: the set is not sorted
sorted_Unsorted(s) == s

\* sorted(iterable)
RECURSIVE sorted(_)
sorted(s) ==
    IF s = <<>> THEN <<>>
    ELSE InsertSorted(sorted(SubSeq(s, 1, Len(s) - 1)), s[Len(s)])

\* the values self._locks can take for an input collection
WorkingLists(locks) == {sorted(order) : order \in SetIterOrders(SetMembers(locks))}

\* ------------------------------------------------------------------------
\* Exceptions and log records
\* ------------------------------------------------------------------------

None == [kind |-> "None"]

\* whatever lock.acquire() raises
AcquireError(l) == [kind |-> "AcquireError", lock |-> l]

\* the Exception lock.release() raises
ReleaseException(l) == [kind |-> "Exception", lock |-> l]

\* class ReleaseError(Exception), raised as ReleaseError(errors)
ReleaseError(errs) == [kind |-> "ReleaseError", errors |-> errs]

\* whatever the protected body raises
BodyError == [kind |-> "BodyError"]

\* log.error("Error acquiring lock %r", lock)
LogAcquire(l) == [msg |-> "Error acquiring lock", lock |-> l]

\* log.exception("Error releasing locks"): records the exception being handled
LogRelease(e) == [msg |-> "Error releasing locks", exc_info |-> e]

\* a call made on a lock and whether it returned (ok) or raised
Call(op, l, ok) == [op |-> op, lock |-> l, ok |-> ok]

\* ------------------------------------------------------------------------
\* One guard used by one `with context(locks):` statement
\* ------------------------------------------------------------------------

VARIABLES
    locks,          \* the collection passed to context(locks); the guard keeps
                    \* no reference to it, it is gone once the guard is entered
    _locks,         \* self._locks
    _held_locks,    \* self._held_locks
    pc,             \* where the guard is in its life
    iter,           \* position of `for lock in self._locks` in __enter__
    exc,            \* exc = sys.exc_info() in __enter__
    errors,         \* errors, local to _release
    exc_type,       \* exc_type argument of __exit__
    returned,       \* what __exit__ did: "unset", "None", "False" or "raise"
    raised,         \* the exception the caller of the with statement observes
    log,            \* records emitted on the 'storage.guarded' logger
    calls,          \* acquire()/release() calls made on locks, in order
    entries,        \* how many times __enter__ was called on the guard
    threads         \* the guards of concurrent threads (see below); none here

guardVars == <<locks, _locks, _held_locks, pc, iter, exc, errors, exc_type,
               returned, raised, log, calls, entries>>

vars == <<guardVars, threads>>

Init ==
    /\ locks \in SeqsUpTo(Lock, MaxLocks)
    /\ _locks = <<>>
    /\ _held_locks = <<>>
    /\ pc = "INIT"
    /\ iter = 0
    /\ exc = None
    /\ errors = <<>>
    /\ exc_type = None
    /\ returned = "unset"
    /\ raised = None
    /\ log = <<>>
    /\ calls = <<>>
    /\ entries = 0
    /\ threads = <<>>

\* mutation: the held list starts as the working list
__init___HeldIsWorkingList ==
    /\ pc = "INIT"
    /\ _locks' \in WorkingLists(locks)
    /\ _held_locks' = _locks'
    /\ pc' = "CONSTRUCTED"
    /\ UNCHANGED <<threads, entries, locks, iter, exc, errors, exc_type, returned, raised,
                   log, calls>>

\* context.__init__
__init__ ==
    /\ pc = "INIT"
    /\ _locks' \in WorkingLists(locks)
    /\ _held_locks' = <<>>
    /\ pc' = "CONSTRUCTED"
    /\ UNCHANGED <<threads, entries, locks, iter, exc, errors, exc_type, returned, raised, log, calls>>

\* the with statement calls __enter__: the for loop starts
__enter__ ==
    /\ pc = "CONSTRUCTED"
    /\ pc' = "ENTERING"
    /\ iter' = 1
    /\ locks' = <<>>
    /\ entries' = entries + 1
    /\ UNCHANGED <<threads, _locks, _held_locks, exc, errors, exc_type, returned,
                   raised, log, calls>>

\* mutation: the acquired lock is put at the front of the held list
AcquireOk_Prepend ==
    /\ pc = "ENTERING"
    /\ iter <= Len(_locks)
    /\ calls' = Append(calls, Call("acquire", _locks[iter], TRUE))
    /\ _held_locks' = <<_locks[iter]>> \o _held_locks
    /\ iter' = iter + 1
    /\ UNCHANGED <<threads, entries, locks, _locks, pc, exc, errors, exc_type, returned, raised, log>>

\* lock.acquire() returns; self._held_locks.append(lock)
AcquireOk ==
    /\ pc = "ENTERING"
    /\ iter <= Len(_locks)
    /\ calls' = Append(calls, Call("acquire", _locks[iter], TRUE))
    /\ _held_locks' = Append(_held_locks, _locks[iter])
    /\ iter' = iter + 1
    /\ UNCHANGED <<threads, entries, locks, _locks, pc, exc, errors, exc_type, returned, raised, log>>

\* mutation: the error of acquire() is logged and the loop goes on
AcquireFail_Continue ==
    /\ pc = "ENTERING"
    /\ iter <= Len(_locks)
    /\ calls' = Append(calls, Call("acquire", _locks[iter], FALSE))
    /\ log' = Append(log, LogAcquire(_locks[iter]))
    /\ iter' = iter + 1
    /\ UNCHANGED <<threads, entries, locks, _locks, _held_locks, pc, exc, errors,
                   exc_type, returned, raised>>

\* lock.acquire() raises: the except clause saves the exception, logs it and
\* calls self._release()
AcquireFail ==
    /\ pc = "ENTERING"
    /\ iter <= Len(_locks)
    /\ calls' = Append(calls, Call("acquire", _locks[iter], FALSE))
    /\ exc' = AcquireError(_locks[iter])
    /\ log' = Append(log, LogAcquire(_locks[iter]))
    /\ errors' = <<>>
    /\ pc' = "ROLLBACK"
    /\ UNCHANGED <<threads, entries, locks, _locks, _held_locks, iter, exc_type, returned, raised>>

\* the for loop is exhausted: return self; the body starts
EnterReturn ==
    /\ pc = "ENTERING"
    /\ iter > Len(_locks)
    /\ pc' = "ACTIVE"
    /\ UNCHANGED <<threads, entries, locks, _locks, _held_locks, iter, exc, errors, exc_type,
                   returned, raised, log, calls, entries>>

\* the protected body ends, normally or with an exception, and the with
\* statement calls __exit__, which calls self._release()
Body ==
    /\ pc = "ACTIVE"
    /\ exc_type' \in {None, BodyError}
    /\ errors' = <<>>
    /\ pc' = "EXITING"
    /\ UNCHANGED <<threads, entries, locks, _locks, _held_locks, iter, exc, returned, raised, log, calls>>

\* mutation: pop(0), the oldest lock is taken first
pop_Oldest(held) == [lock |-> Head(held), rest |-> Tail(held)]

\* mutation: the last lock is read and not removed
pop_Peek(held) == [lock |-> held[Len(held)], rest |-> held]

\* lock = self._held_locks.pop(): the lock taken and the list left
pop(held) == [lock |-> held[Len(held)], rest |-> SubSeq(held, 1, Len(held) - 1)]

\* one turn of `while self._held_locks` in _release, lock.release() returns
ReleaseOk ==
    /\ pc \in {"ROLLBACK", "EXITING"}
    /\ _held_locks # <<>>
    /\ _held_locks' = pop(_held_locks).rest
    /\ calls' = Append(calls, Call("release", pop(_held_locks).lock, TRUE))
    /\ UNCHANGED <<threads, entries, locks, _locks, pc, iter, exc, errors, exc_type, returned, raised, log>>

\* mutation: only the latest error is kept
ReleaseFail_KeepLast ==
    /\ pc \in {"ROLLBACK", "EXITING"}
    /\ _held_locks # <<>>
    /\ _held_locks' = pop(_held_locks).rest
    /\ calls' = Append(calls, Call("release", pop(_held_locks).lock, FALSE))
    /\ errors' = <<ReleaseException(pop(_held_locks).lock)>>
    /\ UNCHANGED <<threads, entries, locks, _locks, pc, iter, exc, exc_type, returned, raised, log>>

\* mutation: a failing release() ends the loop, the locks still held are
\* forgotten
ReleaseFail_DropRest ==
    /\ pc \in {"ROLLBACK", "EXITING"}
    /\ _held_locks # <<>>
    /\ _held_locks' = <<>>
    /\ calls' = Append(calls, Call("release", pop(_held_locks).lock, FALSE))
    /\ errors' = Append(errors, ReleaseException(pop(_held_locks).lock))
    /\ UNCHANGED <<threads, entries, locks, _locks, pc, iter, exc, exc_type, returned, raised, log>>

\* mutation: a lock whose release() raised stays in the held list
ReleaseFail_Retry ==
    /\ pc \in {"ROLLBACK", "EXITING"}
    /\ _held_locks # <<>>
    /\ calls' = Append(calls, Call("release", _held_locks[Len(_held_locks)], FALSE))
    /\ errors' = Append(errors, ReleaseException(_held_locks[Len(_held_locks)]))
    /\ UNCHANGED <<threads, entries, locks, _locks, _held_locks, pc, iter, exc, exc_type,
                   returned, raised, log>>

\* one turn of the loop, lock.release() raises: errors.append(e)
ReleaseFail ==
    /\ pc \in {"ROLLBACK", "EXITING"}
    /\ _held_locks # <<>>
    /\ _held_locks' = pop(_held_locks).rest
    /\ calls' = Append(calls, Call("release", pop(_held_locks).lock, FALSE))
    /\ errors' = Append(errors, ReleaseException(pop(_held_locks).lock))
    /\ UNCHANGED <<threads, entries, locks, _locks, pc, iter, exc, exc_type, returned, raised, log>>

\* mutation: ReleaseError is raised whether or not a release failed
ReleaseOutcome_AlwaysRaise(errs) == ReleaseError(errs)

\* what _release() ends with: `if errors: raise ReleaseError(errors)`
ReleaseOutcome(errs) == IF errs # <<>> THEN ReleaseError(errs) ELSE None

\* mutation: the ReleaseError of the rollback is not caught
RollbackDone_ReleaseErrorEscapes ==
    /\ pc = "ROLLBACK"
    /\ _held_locks = <<>>
    /\ log' = log
    /\ raised' = IF ReleaseOutcome(errors) # None THEN ReleaseOutcome(errors) ELSE exc
    /\ exc' = None
    /\ pc' = "ACQUIRE_FAILED"
    /\ UNCHANGED <<threads, entries, locks, _locks, _held_locks, iter, errors, exc_type, returned, calls>>

\* mutation: the ReleaseError of the rollback is caught and not logged
RollbackDone_Silent ==
    /\ pc = "ROLLBACK"
    /\ _held_locks = <<>>
    /\ log' = log
    /\ raised' = exc
    /\ exc' = None
    /\ pc' = "ACQUIRE_FAILED"
    /\ UNCHANGED <<threads, entries, locks, _locks, _held_locks, iter, errors, exc_type,
                   returned, calls>>

\* mutation: the acquisition error is not raised again, the for loop goes on
RollbackDone_Resume ==
    /\ pc = "ROLLBACK"
    /\ _held_locks = <<>>
    /\ log' = IF ReleaseOutcome(errors) # None
              THEN Append(log, LogRelease(ReleaseOutcome(errors)))
              ELSE log
    /\ exc' = None
    /\ iter' = iter + 1
    /\ pc' = "ENTERING"
    /\ UNCHANGED <<threads, entries, locks, _locks, _held_locks, errors, exc_type,
                   returned, raised, calls>>

\* _release() is over in __enter__'s except clause: a ReleaseError is logged,
\* six.reraise(*exc) raises the acquisition error, del exc
RollbackDone ==
    /\ pc = "ROLLBACK"
    /\ _held_locks = <<>>
    /\ log' = IF ReleaseOutcome(errors) # None
              THEN Append(log, LogRelease(ReleaseOutcome(errors)))
              ELSE log
    /\ raised' = exc
    /\ exc' = None
    /\ pc' = "ACQUIRE_FAILED"
    /\ UNCHANGED <<threads, entries, locks, _locks, _held_locks, iter, errors, exc_type, returned, calls>>

\* the exception that leaves a with statement whose body ended with body_exc
\* and whose __exit__ raised exit_exc or returned a false value
WithOutcome(body_exc, exit_exc) == IF exit_exc # None THEN exit_exc ELSE body_exc

\* mutation: __exit__ raises the ReleaseError whatever exc_type is
ExitDone_AlwaysRaise ==
    /\ pc = "EXITING"
    /\ _held_locks = <<>>
    /\ IF ReleaseOutcome(errors) = None
       THEN /\ returned' = "None"
            /\ raised' = WithOutcome(exc_type, None)
            /\ pc' = "CLOSED"
       ELSE /\ returned' = "raise"
            /\ raised' = WithOutcome(exc_type, ReleaseOutcome(errors))
            /\ pc' = "CLOSED_WITH_RELEASE_ERROR"
    /\ log' = log
    /\ UNCHANGED <<threads, entries, locks, _locks, _held_locks, iter, exc, errors, exc_type, calls>>

\* _release() is over in __exit__
ExitDone ==
    /\ pc = "EXITING"
    /\ _held_locks = <<>>
    /\ IF ReleaseOutcome(errors) = None
       THEN /\ returned' = "None"
            /\ raised' = WithOutcome(exc_type, None)
            /\ log' = log
            /\ pc' = "CLOSED"
       ELSE IF exc_type = None
       THEN /\ returned' = "raise"
            /\ raised' = WithOutcome(exc_type, ReleaseOutcome(errors))
            /\ log' = log
            /\ pc' = "CLOSED_WITH_RELEASE_ERROR"
       ELSE /\ returned' = "False"
            /\ raised' = WithOutcome(exc_type, None)
            /\ log' = Append(log, LogRelease(ReleaseOutcome(errors)))
            /\ pc' = "CLOSED_WITH_RELEASE_ERROR"
    /\ UNCHANGED <<threads, entries, locks, _locks, _held_locks, iter, exc, errors, exc_type, calls>>

Next ==
    \/ __init__
    \/ __enter__
    \/ AcquireOk
    \/ AcquireFail
    \/ EnterReturn
    \/ Body
    \/ ReleaseOk
    \/ ReleaseFail
    \/ RollbackDone
    \/ ExitDone

Spec == Init /\ [][Next]_vars

\* the steps of an entered guard
Running ==
    \/ AcquireOk
    \/ AcquireFail
    \/ EnterReturn
    \/ Body
    \/ ReleaseOk
    \/ ReleaseFail
    \/ RollbackDone
    \/ ExitDone

\* once the guard is entered, every call on a lock returns or raises, the
\* body ends and the with statement calls __exit__
FairSpec == Spec /\ WF_vars(Running)

Terminal == pc \in {"ACQUIRE_FAILED", "CLOSED", "CLOSED_WITH_RELEASE_ERROR"}

\* ------------------------------------------------------------------------
\* Several threads, each with a guard of its own, over shared locks
\*
\* The locks are exclusive and not reentrant: acquire() returns once no
\* guard holds the lock and blocks until then; release() frees it.  Two
\* lock objects are the same lock when they are equal (__eq__).  threads[t]
\* is the guard of thread t: its _locks, its _held_locks, the position of
\* the for loop of __enter__ and where the guard is in its life.
\* ------------------------------------------------------------------------

Threads == 1..NumThreads

\* the locks the threads contend for: the resource (ns 1, name 2) in both
\* modes and the resource (ns 2, name 1) in one
ConcLocks ==
    {l \in Lock : /\ l.type = "A"
                  /\ \/ <<l.ns, l.name>> = <<1, 2>>
                     \/ <<l.ns, l.name>> = <<2, 1>> /\ l.mode = "exclusive"}

\* context(locks) for every input collection
ConcWorkingLists ==
    UNION {WorkingLists(input) : input \in SeqsUpTo(ConcLocks, ConcMaxLocks)}

\* the state after every thread has constructed its guard
ConcInit ==
    /\ threads \in [Threads -> {[_locks |-> w, _held_locks |-> <<>>, iter |-> 0,
                                  pc |-> "CONSTRUCTED"] : w \in ConcWorkingLists}]
    /\ locks = <<>>
    /\ _locks = <<>>
    /\ _held_locks = <<>>
    /\ pc = "INIT"
    /\ iter = 0
    /\ exc = None
    /\ errors = <<>>
    /\ exc_type = None
    /\ returned = "unset"
    /\ raised = None
    /\ log = <<>>
    /\ calls = <<>>
    /\ entries = 0

\* some guard holds a lock equal to l
Held(l) ==
    \E u \in Threads : \E j \in DOMAIN threads[u]._held_locks :
        __eq__(threads[u]._held_locks[j], l)

\* thread t enters its with statement: __enter__, the for loop starts
TEnter(t) ==
    /\ threads[t].pc = "CONSTRUCTED"
    /\ threads' = [threads EXCEPT ![t].pc = "ENTERING", ![t].iter = 1]
    /\ UNCHANGED guardVars

\* lock.acquire() returns, which it does only when the lock is free;
\* self._held_locks.append(lock)
TAcquire(t) ==
    LET g == threads[t]
    IN  /\ g.pc = "ENTERING"
        /\ g.iter <= Len(g._locks)
        /\ ~Held(g._locks[g.iter])
        /\ threads' = [threads EXCEPT ![t]._held_locks = Append(g._held_locks, g._locks[g.iter]),
                                      ![t].iter = g.iter + 1]
        /\ UNCHANGED guardVars

\* the for loop is exhausted: return self; the body starts
TEnterReturn(t) ==
    LET g == threads[t]
    IN  /\ g.pc = "ENTERING"
        /\ g.iter > Len(g._locks)
        /\ threads' = [threads EXCEPT ![t].pc = "ACTIVE"]
        /\ UNCHANGED guardVars

\* the body ends and the with statement calls __exit__
TBody(t) ==
    /\ threads[t].pc = "ACTIVE"
    /\ threads' = [threads EXCEPT ![t].pc = "EXITING"]
    /\ UNCHANGED guardVars

\* one turn of the loop of _release: the lock popped is released
TRelease(t) ==
    LET g == threads[t]
    IN  /\ g.pc = "EXITING"
        /\ g._held_locks # <<>>
        /\ threads' = [threads EXCEPT ![t]._held_locks = pop(g._held_locks).rest]
        /\ UNCHANGED guardVars

\* _release() and __exit__ are over
TExitDone(t) ==
    LET g == threads[t]
    IN  /\ g.pc = "EXITING"
        /\ g._held_locks = <<>>
        /\ threads' = [threads EXCEPT ![t].pc = "CLOSED"]
        /\ UNCHANGED guardVars

TStep(t) ==
    \/ TEnter(t)
    \/ TAcquire(t)
    \/ TEnterReturn(t)
    \/ TBody(t)
    \/ TRelease(t)
    \/ TExitDone(t)

ConcNext == \E t \in Threads : TStep(t)

\* every thread that can take a step is scheduled
ConcSpec == ConcInit /\ [][ConcNext]_vars /\ \A t \in Threads : WF_vars(TStep(t))

\* ------------------------------------------------------------------------
\* One guard object used by several with statements, one after the other
\*
\* __enter__ checks nothing before it starts its loop, so a guard that has
\* been left can be entered again.
\* ------------------------------------------------------------------------

ReuseInit ==
    /\ locks \in SeqsUpTo(ConcLocks, MaxLocks)
    /\ _locks = <<>>
    /\ _held_locks = <<>>
    /\ pc = "INIT"
    /\ iter = 0
    /\ exc = None
    /\ errors = <<>>
    /\ exc_type = None
    /\ returned = "unset"
    /\ raised = None
    /\ log = <<>>
    /\ calls = <<>>
    /\ entries = 0
    /\ threads = <<>>

\* a further with statement calls __enter__ on the guard: the for loop
\* starts over self._locks
Reenter ==
    /\ Terminal
    /\ entries < MaxEntries
    /\ pc' = "ENTERING"
    /\ iter' = 1
    /\ entries' = entries + 1
    /\ exc_type' = None
    /\ returned' = "unset"
    /\ raised' = None
    /\ UNCHANGED <<threads, locks, _locks, _held_locks, exc, errors, log, calls>>

ReuseNext ==
    \/ Next
    \/ Reenter

ReuseSpec == ReuseInit /\ [][ReuseNext]_vars

\* ------------------------------------------------------------------------
\* Readings of the call history
\* ------------------------------------------------------------------------

IsAcquire(c) == c.op = "acquire"
IsRelease(c) == c.op = "release"
IsFailedRelease(c) == c.op = "release" /\ ~c.ok

AcquireCalls == SelectSeq(calls, IsAcquire)
ReleaseCalls == SelectSeq(calls, IsRelease)
FailedReleases == SelectSeq(calls, IsFailedRelease)

LocksOf(cs) == [j \in DOMAIN cs |-> cs[j].lock]

Reverse(s) == [j \in 1..Len(s) |-> s[Len(s) + 1 - j]]

\* the (type, namespace, name, mode) identity of a lock
Identity(l) == <<l.type, l.ns, l.name, l.mode>>

\* (namespace, name) of a is lexicographically smaller than that of b
ResourceBefore(a, b) == a.ns < b.ns \/ (a.ns = b.ns /\ a.name < b.name)

SameResource(a, b) == a.ns = b.ns /\ a.name = b.name

Closed == pc \in {"CLOSED", "CLOSED_WITH_RELEASE_ERROR"}

\* ------------------------------------------------------------------------
\* C1: when the k-th acquire() of the working list is the first to fail,
\* by the time the error has left __enter__ release() was called on exactly
\* the first k-1 locks, in the order k-1, ..., 1, never on the k-th, and the
\* held set is empty, whether or not a rollback release failed.
\* ------------------------------------------------------------------------
C1_RollbackReleasesPrefixInReverse ==
    /\ pc = "ROLLBACK" => raised = None
    /\ pc = "ACQUIRE_FAILED" =>
         LET k == Len(AcquireCalls)
         IN  /\ k \in 1..Len(_locks)
             /\ LocksOf(AcquireCalls) = SubSeq(_locks, 1, k)
             /\ ~AcquireCalls[k].ok
             /\ \A j \in 1..(k - 1) : AcquireCalls[j].ok
             /\ LocksOf(ReleaseCalls) = Reverse(SubSeq(_locks, 1, k - 1))
             /\ \A j \in DOMAIN ReleaseCalls : ReleaseCalls[j].lock # _locks[k]
             /\ _held_locks = <<>>
             /\ raised # None

C1_Witness ==
    /\ pc = "ACQUIRE_FAILED"
    /\ Len(AcquireCalls) = 3
    /\ Len(ReleaseCalls) = 2
    /\ ~ReleaseCalls[1].ok
    /\ ReleaseCalls[2].ok

\* ------------------------------------------------------------------------
\* C2: the error that leaves __enter__ is the error of the acquire() that
\* failed, whatever the rollback releases did; it is never a ReleaseError.
\* ------------------------------------------------------------------------
C2_AcquireErrorLeavesEnter ==
    pc = "ACQUIRE_FAILED" =>
        /\ raised = AcquireError(AcquireCalls[Len(AcquireCalls)].lock)
        /\ ~AcquireCalls[Len(AcquireCalls)].ok
        /\ raised.kind # "ReleaseError"

C2_Witness ==
    /\ pc = "ACQUIRE_FAILED"
    /\ FailedReleases # <<>>
    /\ Len(FailedReleases) < Len(ReleaseCalls)

\* ------------------------------------------------------------------------
\* C3: when the body fails, the caller observes the body's failure after
\* __exit__, whatever the releases did: __exit__ returns no true value and
\* raises no ReleaseError.
\* ------------------------------------------------------------------------
C3_BodyFailureSurvivesExit ==
    (Closed /\ exc_type = BodyError) =>
        /\ raised = BodyError
        /\ returned \in {"None", "False"}

C3_Witness ==
    /\ Closed
    /\ exc_type = BodyError
    /\ FailedReleases # <<>>
    /\ Len(FailedReleases) < Len(ReleaseCalls)

\* ------------------------------------------------------------------------
\* C4: when the body succeeds and some release() fails at exit, __exit__
\* raises one ReleaseError listing one error per failed release(), in the
\* order the failures happened, which is reverse acquisition order.
\* ------------------------------------------------------------------------
FailedInReverseAcquisition ==
    LET rev == Reverse(LocksOf(AcquireCalls))
        failedLocks == {FailedReleases[j].lock : j \in DOMAIN FailedReleases}
        HasFailed(l) == l \in failedLocks
    IN  LocksOf(FailedReleases) = SelectSeq(rev, HasFailed)

C4_ReleaseErrorListsEveryFailure ==
    (Closed /\ exc_type = None /\ FailedReleases # <<>>) =>
        /\ raised = ReleaseError([j \in 1..Len(FailedReleases) |->
                                    ReleaseException(FailedReleases[j].lock)])
        /\ returned = "raise"
        /\ FailedInReverseAcquisition

C4_Witness ==
    /\ Closed
    /\ exc_type = None
    /\ Len(ReleaseCalls) = 3
    /\ ~ReleaseCalls[1].ok
    /\ ReleaseCalls[2].ok
    /\ ~ReleaseCalls[3].ok

\* ------------------------------------------------------------------------
\* C5: every lock whose acquire() succeeded has release() called on it, once
\* and only once, also when release() of other held locks fails.
\* ------------------------------------------------------------------------
AcquiredOk(l) == \E j \in DOMAIN calls : calls[j] = Call("acquire", l, TRUE)

ReleaseCount(l) ==
    Cardinality({j \in DOMAIN calls : IsRelease(calls[j]) /\ calls[j].lock = l})

\* calls are only ever added, so "each acquired lock is eventually released
\* once" is "from some point on, every acquired lock has been released once"
AcquiredAllReleasedOnce == \A l \in Lock : AcquiredOk(l) => ReleaseCount(l) = 1

C5_EveryAcquiredLockReleasedOnce ==
    /\ [](\A l \in Lock : ReleaseCount(l) <= 1)
    /\ <>[]AcquiredAllReleasedOnce

\* a release failed and the locks under it were released all the same
C5_Witness ==
    /\ Terminal
    /\ Len(ReleaseCalls) = 3
    /\ ~ReleaseCalls[1].ok
    /\ AcquiredAllReleasedOnce

\* ------------------------------------------------------------------------
\* C6: when every acquire() succeeds, the release() calls of __exit__ are
\* the successful acquire() calls of __enter__ in reverse.
\* ------------------------------------------------------------------------
C6_ReleaseReversesAcquisition ==
    (Closed /\ \A j \in DOMAIN AcquireCalls : AcquireCalls[j].ok) =>
        LocksOf(ReleaseCalls) = Reverse(LocksOf(AcquireCalls))

C6_Witness ==
    /\ Closed
    /\ Len(AcquireCalls) = 3
    /\ \A j \in DOMAIN AcquireCalls : AcquireCalls[j].ok
    /\ Len(ReleaseCalls) = 3

\* ------------------------------------------------------------------------
\* C9: the working list built by the constructor holds every distinct
\* (type, namespace, name, mode) identity of the input once and nothing
\* else; two locks of one (namespace, name) and different modes both stay.
\* ------------------------------------------------------------------------
C9_WorkingListIsDistinctIdentities ==
    pc = "CONSTRUCTED" =>
        /\ {Identity(l) : l \in Range(_locks)} = {Identity(l) : l \in Range(locks)}
        /\ \A a, b \in DOMAIN _locks : a # b => Identity(_locks[a]) # Identity(_locks[b])
        /\ \A a, b \in Range(locks) :
              (SameResource(a, b) /\ a.mode # b.mode) =>
                  \E x, y \in DOMAIN _locks :
                      x # y /\ Identity(_locks[x]) = Identity(a) /\ Identity(_locks[y]) = Identity(b)

C9_Witness ==
    /\ pc = "CONSTRUCTED"
    /\ Len(locks) = 3
    /\ Len(_locks) = 2
    /\ SameResource(_locks[1], _locks[2])
    /\ _locks[1].type = _locks[2].type
    /\ _locks[1].mode # _locks[2].mode

\* ------------------------------------------------------------------------
\* C10: the acquire() calls of __enter__ are non-decreasing in
\* (namespace, name): no lock is attempted after one with a strictly
\* greater (namespace, name).
\* ------------------------------------------------------------------------
C10_AcquisitionNonDecreasing ==
    \A a, b \in DOMAIN AcquireCalls :
        a < b => ~ResourceBefore(AcquireCalls[b].lock, AcquireCalls[a].lock)

C10_Witness ==
    /\ Len(AcquireCalls) = 3
    /\ SameResource(AcquireCalls[1].lock, AcquireCalls[2].lock)
    /\ AcquireCalls[2].lock.ns < AcquireCalls[3].lock.ns
    /\ AcquireCalls[2].lock.name > AcquireCalls[3].lock.name

\* ------------------------------------------------------------------------
\* Readings of the concurrent guards
\* ------------------------------------------------------------------------

Unfinished(t) == threads[t].pc # "CLOSED"

\* t is in acquire() and another guard holds the lock it asks for
Blocked(t) ==
    LET g == threads[t]
    IN  /\ g.pc = "ENTERING"
        /\ g.iter <= Len(g._locks)
        /\ \E u \in Threads \ {t} : \E j \in DOMAIN threads[u]._held_locks :
              Identity(threads[u]._held_locks[j]) = Identity(g._locks[g.iter])

Deadlocked ==
    /\ \E t \in Threads : Unfinished(t)
    /\ \A t \in Threads : Unfinished(t) => Blocked(t)

AllClosed == \A t \in Threads : ~Unfinished(t)

\* no two different locks of the guards' working lists are for the same
\* (namespace, name)
OneLockPerResource ==
    \A t, u \in Threads :
        \A x \in Range(threads[t]._locks), y \in Range(threads[u]._locks) :
            SameResource(x, y) => Identity(x) = Identity(y)

\* x comes before y in the list s
Precedes(s, x, y) ==
    \E a, b \in DOMAIN s : a < b /\ Identity(s[a]) = Identity(x) /\ Identity(s[b]) = Identity(y)

\* ------------------------------------------------------------------------
\* C7 as claimed: guards running concurrently over arbitrary collections of
\* exclusive locks never reach a state where every unfinished guard is
\* blocked in acquire() on a lock another guard holds, and under fair
\* scheduling every guard is closed in the end.
\* ------------------------------------------------------------------------
C7_Claimed_NoDeadlock == []~Deadlocked /\ <>AllClosed

\* C7 as amended: the same, for collections in which no two different locks
\* are for the same (namespace, name).
C7_NoDeadlockWithOneLockPerResource ==
    /\ [](OneLockPerResource => ~Deadlocked)
    /\ OneLockPerResource ~> AllClosed

\* two guards over the same two resources; one holds both locks, the other
\* waits in acquire() for the first
C7_Witness ==
    /\ OneLockPerResource
    /\ \E t, u \in Threads :
          /\ t # u
          /\ Len(threads[t]._locks) = 2
          /\ threads[u]._locks = threads[t]._locks
          /\ threads[t].pc = "ACTIVE"
          /\ Blocked(u)

\* ------------------------------------------------------------------------
\* C8 as claimed: two guards that both have the distinct locks x and y in
\* their working lists have them in the same relative order.
\* ------------------------------------------------------------------------
C8_Claimed_SameRelativeOrder ==
    \A t, u \in Threads :
        \A x, y \in Range(threads[t]._locks) \cap Range(threads[u]._locks) :
            Identity(x) # Identity(y) =>
                (Precedes(threads[t]._locks, x, y) <=> Precedes(threads[u]._locks, x, y))

\* C8 as amended: the same, for locks x and y of different (namespace, name).
C8_SameRelativeOrderOfResources ==
    \A t, u \in Threads :
        \A x, y \in Range(threads[t]._locks) \cap Range(threads[u]._locks) :
            ~SameResource(x, y) =>
                (Precedes(threads[t]._locks, x, y) <=> Precedes(threads[u]._locks, x, y))

\* two guards have taken the same two locks of different resources
C8_Witness ==
    \E t, u \in Threads :
        /\ t # u
        /\ Len(threads[t]._locks) = 2
        /\ ~SameResource(threads[t]._locks[1], threads[t]._locks[2])
        /\ Range(threads[u]._locks) = Range(threads[t]._locks)
        /\ threads[t].pc = "CLOSED"
        /\ threads[u].pc = "ACTIVE"

\* ------------------------------------------------------------------------
\* C11 as claimed: within one guard, each lock acquired has a
\* (namespace, name) strictly greater than that of the lock acquired before.
\* ------------------------------------------------------------------------
C11_Claimed_StrictlyAscending ==
    \A j \in 1..(Len(AcquireCalls) - 1) :
        ResourceBefore(AcquireCalls[j].lock, AcquireCalls[j + 1].lock)

\* C11 as amended: each lock acquired has a (namespace, name) strictly
\* greater than that of the lock acquired before it, or the same
\* (namespace, name) and another type or mode.
C11_AscendingUpToModeAndType ==
    \A j \in 1..(Len(AcquireCalls) - 1) :
        \/ ResourceBefore(AcquireCalls[j].lock, AcquireCalls[j + 1].lock)
        \/ /\ SameResource(AcquireCalls[j].lock, AcquireCalls[j + 1].lock)
           /\ Identity(AcquireCalls[j].lock) # Identity(AcquireCalls[j + 1].lock)

\* an input with a duplicate: two locks of one resource in different modes
\* were acquired, then a lock of a greater resource
C11_Witness ==
    /\ Len(_locks) = 3
    /\ Len(AcquireCalls) = 3
    /\ SameResource(AcquireCalls[1].lock, AcquireCalls[2].lock)
    /\ AcquireCalls[1].lock.mode # AcquireCalls[2].lock.mode
    /\ ResourceBefore(AcquireCalls[2].lock, AcquireCalls[3].lock)

\* ------------------------------------------------------------------------
\* C12: when the body succeeds and every release() succeeds, __exit__ raises
\* nothing, the caller observes success, the held set is empty and every
\* successful acquire() has been matched by a successful release().
\* ------------------------------------------------------------------------
SuccessfulReleaseCount(l) ==
    Cardinality({j \in DOMAIN calls : calls[j] = Call("release", l, TRUE)})

SuccessfulAcquireCount(l) ==
    Cardinality({j \in DOMAIN calls : calls[j] = Call("acquire", l, TRUE)})

C12_CleanExitLeavesNothingHeld ==
    (Closed /\ exc_type = None /\ FailedReleases = <<>>) =>
        /\ pc = "CLOSED"
        /\ returned = "None"
        /\ raised = None
        /\ _held_locks = <<>>
        /\ \A l \in Lock : SuccessfulReleaseCount(l) = SuccessfulAcquireCount(l)
        /\ \A l \in Range(_locks) : SuccessfulAcquireCount(l) = 1

C12_Witness ==
    /\ pc = "CLOSED"
    /\ exc_type = None
    /\ Len(_locks) = 3
    /\ Len(ReleaseCalls) = 3
    /\ FailedReleases = <<>>

\* ------------------------------------------------------------------------
\* C13: the guard is single-use: once it is ACQUIRE_FAILED, CLOSED or
\* CLOSED_WITH_RELEASE_ERROR no further entry is permitted, no sequence of
\* enter and exit on one guard leads to a second round of acquire() calls.
\* ------------------------------------------------------------------------
AcquireCount(l) ==
    Cardinality({j \in DOMAIN calls : IsAcquire(calls[j]) /\ calls[j].lock = l})

C13_Claimed_SingleUse == \A l \in Lock : AcquireCount(l) <= 1

\* ------------------------------------------------------------------------
\* C14: the body runs only with the whole working list held and nothing
\* released; once an acquire() has failed the guard is rolling back or
\* ACQUIRE_FAILED, the body does not run and __exit__ is not reached.
\* ------------------------------------------------------------------------
SomeAcquireFailed == \E j \in DOMAIN AcquireCalls : ~AcquireCalls[j].ok

C14_BodyRunsWithAllLocksHeld ==
    /\ pc = "ACTIVE" =>
          /\ _held_locks = _locks
          /\ LocksOf(AcquireCalls) = _locks
          /\ ~SomeAcquireFailed
          /\ ReleaseCalls = <<>>
    /\ SomeAcquireFailed =>
          /\ pc \in {"ROLLBACK", "ACQUIRE_FAILED"}
          /\ exc_type = None
          /\ returned = "unset"

\* the third acquire() failed after two locks were taken and rolled back
C14_Witness ==
    /\ pc = "ACQUIRE_FAILED"
    /\ Len(AcquireCalls) = 3
    /\ SomeAcquireFailed
    /\ Len(ReleaseCalls) = 2

\* ------------------------------------------------------------------------
\* C15: every acquisition failure is logged; a ReleaseError of the rollback,
\* or of an exit after a body failure, is logged before control is back at
\* the caller; no release failure is left both unraised and unlogged.
\* ------------------------------------------------------------------------
\* the ReleaseError made of the release() failures of the history
CollectedReleaseError ==
    ReleaseError([j \in 1..Len(FailedReleases) |-> ReleaseException(FailedReleases[j].lock)])

ReleaseErrorLogged == LogRelease(CollectedReleaseError) \in Range(log)

C15_SuppressedFailuresAreLogged ==
    /\ \A j \in DOMAIN AcquireCalls :
          ~AcquireCalls[j].ok => LogAcquire(AcquireCalls[j].lock) \in Range(log)
    /\ (pc = "ACQUIRE_FAILED" /\ FailedReleases # <<>>) => ReleaseErrorLogged
    /\ (Closed /\ exc_type = BodyError /\ FailedReleases # <<>>) => ReleaseErrorLogged
    /\ (Terminal /\ FailedReleases # <<>>) =>
          (raised = CollectedReleaseError \/ ReleaseErrorLogged)

\* two rollback releases failed after the third acquire() failed
C15_Witness ==
    /\ pc = "ACQUIRE_FAILED"
    /\ Len(AcquireCalls) = 3
    /\ Len(FailedReleases) = 2
    /\ Len(log) = 2

\* ------------------------------------------------------------------------
\* C16: constructing a guard calls no acquire() and no release() and leaves
\* the held set empty, for every input collection; for an empty collection,
\* entering and leaving the guard makes no call on a lock and raises nothing.
\* ------------------------------------------------------------------------
C16_ConstructionTouchesNoLock ==
    /\ pc = "CONSTRUCTED" =>
          /\ calls = <<>>
          /\ _held_locks = <<>>
          /\ raised = None
          /\ log = <<>>
    /\ (pc # "INIT" /\ _locks = <<>>) =>
          /\ calls = <<>>
          /\ log = <<>>
          /\ pc \in {"CONSTRUCTED", "ENTERING", "ACTIVE", "EXITING", "CLOSED"}
          /\ returned \in {"unset", "None"}
          /\ raised = IF pc = "CLOSED" THEN exc_type ELSE None

\* a guard over the empty collection was entered and left
C16_Witness ==
    /\ pc = "CLOSED"
    /\ _locks = <<>>
    /\ exc_type = None
    /\ entries = 1

\* ------------------------------------------------------------------------
\* C17: in a guard used once the held set is always a prefix of the working
\* list, without a repeated lock; it grows only by the next element of the
\* working list, after that lock's successful acquire(), and shrinks only
\* by its last element.
\* ------------------------------------------------------------------------
HeldIsPrefix ==
    /\ Len(_held_locks) <= Len(_locks)
    /\ _held_locks = SubSeq(_locks, 1, Len(_held_locks))
    /\ \A a, b \in DOMAIN _held_locks :
          a # b => Identity(_held_locks[a]) # Identity(_held_locks[b])

HeldGrowsOrShrinksAtTheEnd ==
    \/ _held_locks' = _held_locks
    \/ /\ Len(_held_locks) < Len(_locks)
       /\ _held_locks' = Append(_held_locks, _locks[Len(_held_locks) + 1])
       /\ calls' = Append(calls, Call("acquire", _locks[Len(_held_locks) + 1], TRUE))
    \/ /\ _held_locks # <<>>
       /\ _held_locks' = SubSeq(_held_locks, 1, Len(_held_locks) - 1)

C17_HeldSetIsPrefixOfWorkingList ==
    /\ []HeldIsPrefix
    /\ [][HeldGrowsOrShrinksAtTheEnd]_vars

\* three locks were taken and the last one has been released
C17_Witness ==
    /\ pc = "EXITING"
    /\ Len(_locks) = 3
    /\ Len(_held_locks) = 2
    /\ entries = 1

\* ------------------------------------------------------------------------
\* C18: after the first acquire() failure in __enter__ the guard makes no
\* further acquire() call; the locks after the failing one in the working
\* list are neither acquired nor released.
\* ------------------------------------------------------------------------
C18_NoAcquireAfterFailure ==
    /\ \A a, b \in DOMAIN calls :
          (a < b /\ IsAcquire(calls[a]) /\ ~calls[a].ok) => ~IsAcquire(calls[b])
    /\ SomeAcquireFailed =>
          \A m \in (Len(AcquireCalls) + 1)..Len(_locks) :
              \A j \in DOMAIN calls : Identity(calls[j].lock) # Identity(_locks[m])

\* the second of three acquire() calls failed and the first lock was released
C18_Witness ==
    /\ pc = "ACQUIRE_FAILED"
    /\ Len(_locks) = 3
    /\ Len(AcquireCalls) = 2
    /\ Len(ReleaseCalls) = 1

\* ------------------------------------------------------------------------
\* C19: the guard calls release() only on a lock it holds: for every lock
\* there are never more release() calls than successful acquire() calls, so
\* no lock is released twice and none that was not acquired; a lock whose
\* release() failed has left the held set and is not tried again.
\* ------------------------------------------------------------------------
ReleasesWithinAcquires ==
    /\ \A l \in Lock :
          /\ ReleaseCount(l) <= SuccessfulAcquireCount(l)
          /\ ReleaseCount(l) <= 1
    /\ \A j \in DOMAIN FailedReleases : FailedReleases[j].lock \notin Range(_held_locks)

\* a step that calls release() calls it on the last held lock, which then is
\* no more in the held set
ReleaseIsOfHeldLock ==
    (Len(calls') = Len(calls) + 1 /\ IsRelease(calls'[Len(calls')])) =>
        /\ _held_locks # <<>>
        /\ calls'[Len(calls')].lock = _held_locks[Len(_held_locks)]
        /\ calls'[Len(calls')].lock \notin Range(_held_locks')

C19_ReleaseOnlyHeldLocks ==
    /\ []ReleasesWithinAcquires
    /\ [][ReleaseIsOfHeldLock]_vars

\* the release() of the last lock failed and the next lock was released
C19_Witness ==
    /\ Len(AcquireCalls) = 3
    /\ Len(ReleaseCalls) = 2
    /\ ~ReleaseCalls[1].ok
    /\ Len(_held_locks) = 1

\* ------------------------------------------------------------------------
\* C20: when every acquire() and release() call returns or raises,
\* __enter__ and __exit__ end: __enter__ after at most one acquire() per
\* element of the working list and at most one release() per held lock, the
\* release loop with the held set empty after as many release() calls as
\* locks were held when it started, whichever releases fail.
\* ------------------------------------------------------------------------
InGuardCall == pc \in {"ENTERING", "ROLLBACK", "EXITING"}

SuccessfulAcquires == Cardinality({j \in DOMAIN AcquireCalls : AcquireCalls[j].ok})

CallsAreBounded ==
    /\ Len(AcquireCalls) <= Len(_locks)
    /\ \A l \in Lock : AcquireCount(l) <= 1
    /\ Len(ReleaseCalls) + Len(_held_locks) = SuccessfulAcquires
    /\ Terminal => (_held_locks = <<>> /\ Len(ReleaseCalls) = SuccessfulAcquires)

C20_EnterAndExitTerminate ==
    /\ []CallsAreBounded
    /\ InGuardCall ~> ~InGuardCall

\* __exit__ ended after three release() calls that all failed
C20_Witness ==
    /\ pc = "CLOSED_WITH_RELEASE_ERROR"
    /\ Len(ReleaseCalls) = 3
    /\ Len(FailedReleases) = 3
    /\ _held_locks = <<>>

====
